---- MODULE Spec2Model ----
(***************************************************************************)
(* A model of two cores of the iced GUI toolkit:                           *)
(*                                                                         *)
(*   - the text_input Editor (native/src/widget/text_input/editor.rs):     *)
(*     insert, paste, backspace and delete over a Value (the buffer) and   *)
(*     a Cursor;                                                           *)
(*   - the Canvas widget (graphics/src/widget/canvas.rs) drawing the Arc   *)
(*     example program (examples/pure/arc/src/main.rs) through a geometry  *)
(*     Cache that a clock tick clears.                                     *)
(*                                                                         *)
(* Value, Cursor, canvas::Cache and the Program trait's defaults live in   *)
(* files of the repository that are not part of the sources at hand; they  *)
(* are modelled from the written specification (sections 3 and 4).         *)
(***************************************************************************)
EXTENDS Integers, Sequences, FiniteSets, TLC

\* ------------------------------------------------------------------ bounds

\* Longest buffer the model explores.
MaxLen == 3

\* Longest pasted content.
MaxPaste == 2

\* The characters of the model's alphabet.
Chars == {"a", "b"}

\* Largest width and height of a layout, in half units (see One).
MaxSide == 3

\* The positions (x, y) a layout places the canvas at.
Positions == {<<0, 0>>, <<1, 2>>}

\* How far the clock runs, in steps of half a revolution (see Period).
MaxElapsed == 1

\* Most messages waiting in the shell at once.
MaxQueue == 1

\* Lengths are counted in halves, so that widths below 1.0 other than 0 exist:
\* this is the 1.0 that Canvas::draw compares the bounds against.
One == 2

\* The 10_000 ms of one revolution of the arc, in clock steps of 5_000 ms.
Period == 2

\* ------------------------------------------------------------------ state

VARIABLES
    value,      \* Editor.value: the buffer, a sequence of characters
    cursor,     \* Editor.cursor: [anchor, head]; a caret when anchor = head
    panicked,   \* an Editor operation indexed the buffer out of bounds
    op,         \* the operation that produced this state, with its arguments
    pre,        \* the buffer and cursor that operation started from
    undo,       \* when the operation before this one was an insert: what
                \* that insert started from (history, read by no operation)
    cache,      \* Arc.cache: Empty, or Filled with the size drawn at and the
                \* geometry drawn
    elapsed,    \* Arc.start.elapsed(), in clock steps
    primitives, \* what the last Canvas::draw handed to the renderer
    draws,      \* how often that Canvas::draw ran the closure that builds the
                \* geometry (the regeneration counter of one render)
    messages,   \* the shell's messages, published and not yet delivered
    status,     \* the event::Status the last Canvas::on_event returned
    updates,    \* how often that on_event called the program's update
    seen,       \* the last render that reached the cache with no clear since:
                \* its size and the geometry it returned (history)
    invalidated,\* the cache was cleared since the last render that reached it
                \* (history)
    cop         \* the canvas step that produced this state, with its inputs
                \* and the cache and histories it started from (history)

editorVars == <<value, cursor, panicked, op, pre, undo>>

canvasVars == <<cache, elapsed, primitives, draws, messages, status, updates,
                seen, invalidated, cop>>

vars == <<value, cursor, panicked, op, pre, undo,
          cache, elapsed, primitives, draws, messages, status, updates,
          seen, invalidated, cop>>

\* ------------------------------------------------------------------ helpers

Min(a, b) == IF a < b THEN a ELSE b

Max(a, b) == IF a > b THEN a ELSE b

\* All sequences over S of length at most n.
SeqsUpTo(S, n) == UNION {[1..k -> S] : k \in 0..n}

\* B[..i]
Prefix(B, i) == SubSeq(B, 1, i)

\* B[i..]
Suffix(B, i) == SubSeq(B, i + 1, Len(B))

\* ------------------------------------------------------------------ Cursor

\* A collapsed cursor at `position`.
move_to(position) == [anchor |-> position, head |-> position]

\* The stored offsets re-clamped against the current buffer length.
clamped(c, v) == [anchor |-> Min(c.anchor, Len(v)), head |-> Min(c.head, Len(v))]

\* Cursor::selection(): the normalized range, none when anchor = head.  It
\* takes no buffer and reads the stored offsets as they are.
cursor_selection(c) ==
    IF c.anchor = c.head
    THEN [some |-> FALSE]
    ELSE [some |-> TRUE,
          left |-> Min(c.anchor, c.head),
          right |-> Max(c.anchor, c.head)]

\* Cursor::start(value) = min(anchor, head), clamped.
cursor_start(c, v) == Min(Min(c.anchor, c.head), Len(v))

\* Cursor::end(value) = max(anchor, head), clamped.
cursor_end(c, v) == Min(Max(c.anchor, c.head), Len(v))

\* Cursor::move_left(value): re-clamp against the buffer; a selection
\* collapses to its left edge, a caret moves one to the left, stopping at 0.
move_left(c, v) ==
    LET k == clamped(c, v)
    IN  IF k.anchor # k.head
        THEN move_to(Min(k.anchor, k.head))
        ELSE move_to(IF k.head > 0 THEN k.head - 1 ELSE 0)

\* Cursor::move_right_by_amount(value, amount): re-clamp against the buffer;
\* a selection collapses to its right edge, a caret advances by `amount`,
\* stopping at the end of the buffer.
move_right_by_amount(c, v, amount) ==
    LET k == clamped(c, v)
    IN  IF k.anchor # k.head
        THEN move_to(Max(k.anchor, k.head))
        ELSE move_to(Min(k.head + amount, Len(v)))

\* Cursor::move_right(value)
move_right(c, v) == move_right_by_amount(c, v, 1)

\* Cursor::select_range(start, end)
select_range(start, end) == [anchor |-> start, head |-> end]

\* ------------------------------------------------------------------ Value
\* An editor in flight is a record [value, cursor, panicked].  A Value
\* operation given an offset outside the buffer panics: the operation stops
\* there and nothing after it runs.

\* Value::remove_many(start, end)
remove_many(e, start, end) ==
    IF e.panicked THEN e
    ELSE IF 0 <= start /\ start <= end /\ end <= Len(e.value)
    THEN [e EXCEPT !.value = Prefix(e.value, start) \o Suffix(e.value, end)]
    ELSE [e EXCEPT !.panicked = TRUE]

\* Value::insert(index, c)
value_insert(e, index, c) ==
    IF e.panicked THEN e
    ELSE IF 0 <= index /\ index <= Len(e.value)
    THEN [e EXCEPT !.value = Prefix(e.value, index) \o <<c>> \o Suffix(e.value, index)]
    ELSE [e EXCEPT !.panicked = TRUE]

\* Value::insert_many(index, content)
insert_many(e, index, content) ==
    IF e.panicked THEN e
    ELSE IF 0 <= index /\ index <= Len(e.value)
    THEN [e EXCEPT !.value = Prefix(e.value, index) \o content \o Suffix(e.value, index)]
    ELSE [e EXCEPT !.panicked = TRUE]

\* Value::remove(index)
value_remove(e, index) ==
    IF e.panicked THEN e
    ELSE IF 0 <= index /\ index < Len(e.value)
    THEN [e EXCEPT !.value = Prefix(e.value, index) \o Suffix(e.value, index + 1)]
    ELSE [e EXCEPT !.panicked = TRUE]

\* A cursor movement inside an Editor operation (skipped after a panic).
moved(e, c) == IF e.panicked THEN e ELSE [e EXCEPT !.cursor = c]

\* ------------------------------------------------------------------ Editor

\* insert that forgets to advance the caret past the new character.
insert_no_advance(e, character) ==
    LET sel == cursor_selection(e.cursor)
        e1  == IF sel.some
               THEN LET r == remove_many(e, sel.left, sel.right)
                    IN  moved(r, move_left(r.cursor, r.value))
               ELSE e
    IN  value_insert(e1, cursor_end(e1.cursor, e1.value), character)

\* Editor::insert(character)
insert(e, character) ==
    LET sel == cursor_selection(e.cursor)
        e1  == IF sel.some
               THEN LET r == remove_many(e, sel.left, sel.right)
                    IN  moved(r, move_left(r.cursor, r.value))
               ELSE e
        e2  == value_insert(e1, cursor_end(e1.cursor, e1.value), character)
    IN  moved(e2, move_right(e2.cursor, e2.value))

\* paste that advances the caret by one instead of by the content's length.
paste_advance_one(e, content) ==
    LET sel == cursor_selection(e.cursor)
        e1  == IF sel.some
               THEN LET r == remove_many(e, sel.left, sel.right)
                    IN  moved(r, move_left(r.cursor, r.value))
               ELSE e
        e2  == insert_many(e1, cursor_end(e1.cursor, e1.value), content)
    IN  moved(e2, move_right(e2.cursor, e2.value))

\* Editor::paste(content)
paste(e, content) ==
    LET length == Len(content)
        sel == cursor_selection(e.cursor)
        e1  == IF sel.some
               THEN LET r == remove_many(e, sel.left, sel.right)
                    IN  moved(r, move_left(r.cursor, r.value))
               ELSE e
        e2  == insert_many(e1, cursor_end(e1.cursor, e1.value), content)
    IN  moved(e2, move_right_by_amount(e2.cursor, e2.value, length))

\* backspace that removes the character under the caret, not the one before.
backspace_removes_at_caret(e) ==
    LET sel == cursor_selection(e.cursor)
    IN  IF sel.some
        THEN LET r == remove_many(e, sel.left, sel.right)
             IN  moved(r, move_left(r.cursor, r.value))
        ELSE LET start == cursor_start(e.cursor, e.value)
             IN  IF start > 0 /\ start < Len(e.value)
                 THEN value_remove(moved(e, move_left(e.cursor, e.value)), start)
                 ELSE IF start > 0
                 THEN moved(e, move_left(e.cursor, e.value))
                 ELSE e

\* backspace whose guard is dropped and whose offset saturates at 0.
backspace_unguarded(e) ==
    LET sel == cursor_selection(e.cursor)
    IN  IF sel.some
        THEN LET r == remove_many(e, sel.left, sel.right)
             IN  moved(r, move_left(r.cursor, r.value))
        ELSE LET start == cursor_start(e.cursor, e.value)
             IN  IF Len(e.value) > 0
                 THEN value_remove(moved(e, move_left(e.cursor, e.value)),
                                   Max(start - 1, 0))
                 ELSE e

\* backspace that removes the character and forgets to move the caret.
backspace_keeps_caret(e) ==
    LET sel == cursor_selection(e.cursor)
    IN  IF sel.some
        THEN LET r == remove_many(e, sel.left, sel.right)
             IN  moved(r, move_left(r.cursor, r.value))
        ELSE LET start == cursor_start(e.cursor, e.value)
             IN  IF start > 0
                 THEN value_remove(e, start - 1)
                 ELSE e

\* Editor::backspace()
backspace(e) ==
    LET sel == cursor_selection(e.cursor)
    IN  IF sel.some
        THEN LET r == remove_many(e, sel.left, sel.right)
             IN  moved(r, move_left(r.cursor, r.value))
        ELSE LET start == cursor_start(e.cursor, e.value)
             IN  IF start > 0
                 THEN value_remove(moved(e, move_left(e.cursor, e.value)), start - 1)
                 ELSE e

\* delete that removes the selection and leaves the cursor where it was.
delete_keeps_cursor(e) ==
    LET sel == cursor_selection(e.cursor)
    IN  IF sel.some
        THEN remove_many(e, sel.left, sel.right)
        ELSE LET end == cursor_end(e.cursor, e.value)
             IN  IF end < Len(e.value)
                 THEN value_remove(e, end)
                 ELSE e

\* delete that moves the caret left after removing a character, as
\* backspace does.
delete_moves_caret(e) ==
    LET sel == cursor_selection(e.cursor)
    IN  IF sel.some
        THEN LET r == remove_many(e, sel.left, sel.right)
             IN  moved(r, move_left(r.cursor, r.value))
        ELSE LET end == cursor_end(e.cursor, e.value)
             IN  IF end < Len(e.value)
                 THEN LET r == value_remove(e, end)
                      IN  moved(r, move_left(r.cursor, r.value))
                 ELSE e

\* delete whose end-of-buffer test is off by one.
delete_off_by_one(e) ==
    LET sel == cursor_selection(e.cursor)
    IN  IF sel.some
        THEN LET r == remove_many(e, sel.left, sel.right)
             IN  moved(r, move_left(r.cursor, r.value))
        ELSE LET end == cursor_end(e.cursor, e.value)
             IN  IF end <= Len(e.value)
                 THEN value_remove(e, end)
                 ELSE e

\* delete that removes from the anchor to the head, without normalizing.
delete_unnormalized(e) ==
    LET sel == cursor_selection(e.cursor)
    IN  IF sel.some
        THEN LET r == remove_many(e, e.cursor.anchor, e.cursor.head)
             IN  moved(r, move_left(r.cursor, r.value))
        ELSE LET end == cursor_end(e.cursor, e.value)
             IN  IF end < Len(e.value)
                 THEN value_remove(e, end)
                 ELSE e

\* Editor::delete()
delete(e) ==
    LET sel == cursor_selection(e.cursor)
    IN  IF sel.some
        THEN LET r == remove_many(e, sel.left, sel.right)
             IN  moved(r, move_left(r.cursor, r.value))
        ELSE LET end == cursor_end(e.cursor, e.value)
             IN  IF end < Len(e.value)
                 THEN value_remove(e, end)
                 ELSE e

\* ------------------------------------------------------------------ Cache

\* Cache::default()
cache_empty == [state |-> "Empty"]

\* Cache::clear()
cache_clear(c) == cache_empty

\* Cache::draw(bounds, draw_fn): the memoized geometry when one is stored for
\* this size, else the geometry `fresh` that draw_fn builds, stored as the new
\* payload.  `draws` counts the calls of draw_fn.
cache_draw(c, size, fresh) ==
    IF c.state = "Filled" /\ c.bounds = size
    THEN [cache |-> c, geometry |-> c.primitive, draws |-> 0]
    ELSE [cache |-> [state |-> "Filled", bounds |-> size, primitive |-> fresh],
          geometry |-> fresh,
          draws |-> 1]

\* ------------------------------------------------------------------ Arc

\* Rectangle::size()
size_of(bounds) == <<bounds.width, bounds.height>>

\* The closure of Arc::draw: two circles and an arc laid out in a frame of
\* `size`, at the angle the clock gives.
arc_geometry(size, t) == [size |-> size, angle |-> t % Period]

\* Arc::update that forgets to clear the cache.
arc_update_keeps_cache(c) == c

\* Arc::update(message): every message clears the cache.
arc_update(c) == cache_clear(c)

\* Arc::draw that builds a fresh frame on every call.
arc_draw_uncached(c, bounds, t) ==
    LET fresh == arc_geometry(size_of(bounds), t)
    IN  [cache |-> [state |-> "Filled", bounds |-> size_of(bounds), primitive |-> fresh],
         geometries |-> <<fresh>>,
         draws |-> 1]

\* Arc::draw that asks the cache for a fixed size instead of the bounds' size.
arc_draw_fixed_key(c, bounds, t) ==
    LET r == cache_draw(c, <<One, One>>, arc_geometry(size_of(bounds), t))
    IN  [cache |-> r.cache, geometries |-> <<r.geometry>>, draws |-> r.draws]

\* Arc::draw(state, theme, bounds, cursor)
arc_draw(c, bounds, t) ==
    LET r == cache_draw(c, size_of(bounds), arc_geometry(size_of(bounds), t))
    IN  [cache |-> r.cache, geometries |-> <<r.geometry>>, draws |-> r.draws]

\* ------------------------------------------------------------------ Canvas

\* The test of Canvas::draw for bounds too small to draw in.
degenerate(bounds) == bounds.width < One \/ bounds.height < One

\* Canvas::draw that only skips bounds with no extent at all.
canvas_draw_skips_empty_only(c, bounds, t) ==
    IF bounds.width <= 0 \/ bounds.height <= 0
    THEN [cache |-> c, primitives |-> <<>>, draws |-> 0]
    ELSE LET d == arc_draw(c, bounds, t)
         IN  [cache |-> d.cache,
              primitives |-> <<[translation |-> <<bounds.x, bounds.y>>,
                                group |-> d.geometries]>>,
              draws |-> d.draws]

\* Canvas::draw(renderer, style, layout, cursor_position, viewport): nothing
\* for degenerate bounds, else one translated Group of the program's geometry.
canvas_draw(c, bounds, t) ==
    IF degenerate(bounds)
    THEN [cache |-> c, primitives |-> <<>>, draws |-> 0]
    ELSE LET d == arc_draw(c, bounds, t)
         IN  [cache |-> d.cache,
              primitives |-> <<[translation |-> <<bounds.x, bounds.y>>,
                                group |-> d.geometries]>>,
              draws |-> d.draws]

\* The variants of iced_native::Event.
Events == {"Mouse", "Keyboard", "Window", "Touch"}

\* What a Program's update may return: a status and an optional message.
\* (Arc keeps the trait's default, which is always Ignored and no message.)
ProgramUpdates ==
    {[status |-> st, message |-> m] :
        st \in {"Ignored", "Captured"},
        m \in {[some |-> FALSE], [some |-> TRUE, message |-> "Tick"]}}

\* on_event that hands every event to the program, touch and window events
\* included.
on_event_delegates_all(event, update, shell) ==
    [status |-> update.status,
     shell |-> IF update.message.some
               THEN Append(shell, update.message.message)
               ELSE shell,
     updates |-> 1]

\* on_event that returns the program's status and drops its message.
on_event_drops_message(event, update, shell) ==
    IF event \in {"Mouse", "Keyboard"}
    THEN [status |-> update.status, shell |-> shell, updates |-> 1]
    ELSE [status |-> "Ignored", shell |-> shell, updates |-> 0]

\* Canvas::on_event(event, layout, cursor_position, renderer, clipboard,
\* shell), where `update` is what the program's update returns if called.
on_event(event, update, shell) ==
    LET canvas_event == IF event \in {"Mouse", "Keyboard"}
                        THEN [some |-> TRUE, event |-> event]
                        ELSE [some |-> FALSE]
    IN  IF canvas_event.some
        THEN [status |-> update.status,
              shell |-> IF update.message.some
                        THEN Append(shell, update.message.message)
                        ELSE shell,
              updates |-> 1]
        ELSE [status |-> "Ignored", shell |-> shell, updates |-> 0]

\* ------------------------------------------------------------------ canvas steps

Sides == 0..MaxSide

Rectangles ==
    {[x |-> p[1], y |-> p[2], width |-> w, height |-> h] :
        p \in Positions, w \in Sides, h \in Sides}

\* What a canvas step starts from.
Before == [cache |-> cache, seen |-> seen, invalidated |-> invalidated,
           messages |-> messages]

\* The runtime asks the widget to draw itself in `bounds`.
Render ==
    \E bounds \in Rectangles :
        LET r == canvas_draw(cache, bounds, elapsed)
        IN  /\ cache' = r.cache
            /\ primitives' = r.primitives
            /\ draws' = r.draws
            /\ seen' = IF degenerate(bounds) THEN seen
                       ELSE [some |-> TRUE, size |-> size_of(bounds),
                             geometry |-> r.primitives[1].group[1]]
            /\ invalidated' = IF degenerate(bounds) THEN invalidated ELSE FALSE
            /\ cop' = [name |-> "draw", bounds |-> bounds, before |-> Before]
            /\ UNCHANGED <<elapsed, messages, status, updates>>
            /\ UNCHANGED editorVars

\* The application's update, run for one message.
Updated(name) ==
    /\ cache' = arc_update(cache)
    /\ seen' = [some |-> FALSE]
    /\ invalidated' = TRUE
    /\ cop' = [name |-> name, before |-> Before]
    /\ UNCHANGED <<elapsed, primitives, draws, status, updates>>
    /\ UNCHANGED editorVars

\* The subscription's timer fires: the runtime calls update(Message::Tick).
Tick ==
    /\ Updated("tick")
    /\ UNCHANGED messages

\* The runtime delivers a message the canvas published to update.
Deliver ==
    /\ messages # <<>>
    /\ Updated("deliver")
    /\ messages' = Tail(messages)

\* The runtime hands the widget an event.
OnEvent ==
    \E event \in Events, update \in ProgramUpdates :
        LET r == on_event(event, update, messages)
        IN  /\ Len(r.shell) <= MaxQueue
            /\ messages' = r.shell
            /\ status' = r.status
            /\ updates' = r.updates
            /\ cop' = [name |-> "on_event", event |-> event, update |-> update,
                       before |-> Before]
            /\ UNCHANGED <<cache, elapsed, primitives, draws, seen, invalidated>>
            /\ UNCHANGED editorVars

\* Time passes.
Elapse ==
    /\ elapsed < MaxElapsed
    /\ elapsed' = elapsed + 1
    /\ cop' = [name |-> "elapse", before |-> Before]
    /\ UNCHANGED <<cache, primitives, draws, messages, status, updates,
                   seen, invalidated>>
    /\ UNCHANGED editorVars

\* Arc::new: an empty cache and a clock that starts now; nothing drawn yet.
CanvasStart ==
    /\ cache = cache_empty
    /\ elapsed = 0
    /\ primitives = <<>>
    /\ draws = 0
    /\ messages = <<>>
    /\ status = "Ignored"
    /\ updates = 0
    /\ seen = [some |-> FALSE]
    /\ invalidated = FALSE
    /\ cop = [name |-> "new"]

\* An empty buffer with the caret at 0.
EditorStart ==
    /\ value = <<>>
    /\ cursor = move_to(0)
    /\ panicked = FALSE
    /\ op = [name |-> "new", arg |-> <<>>]
    /\ pre = [value |-> <<>>, cursor |-> move_to(0)]
    /\ undo = [some |-> FALSE]

CanvasInit == CanvasStart /\ EditorStart

CanvasNext == Render \/ Tick \/ Deliver \/ OnEvent \/ Elapse

CanvasSpec == CanvasInit /\ [][CanvasNext]_vars

\* ------------------------------------------------------------------ editor steps

\* The editor borrowed for one operation: Editor::new(value, cursor).
Editor == [value |-> value, cursor |-> cursor, panicked |-> FALSE]

\* What an operation starts from.
Snapshot == [value |-> value, cursor |-> cursor]

\* The Editor's result written back through the borrows.
Commit(r, o) ==
    /\ value' = r.value
    /\ cursor' = r.cursor
    /\ panicked' = r.panicked
    /\ op' = o
    /\ pre' = Snapshot
    /\ undo' = IF op.name = "insert" THEN [some |-> TRUE, from |-> pre]
                                     ELSE [some |-> FALSE]
    /\ UNCHANGED canvasVars

\* The buffer stays within the model's bound after adding n characters.
Fits(n) ==
    LET sel == cursor_selection(cursor)
        gone == IF sel.some THEN sel.right - sel.left ELSE 0
    IN  Len(value) - gone + n <= MaxLen

Insert ==
    /\ ~panicked
    /\ Fits(1)
    /\ \E ch \in Chars :
          Commit(insert(Editor, ch), [name |-> "insert", arg |-> <<ch>>])

Paste ==
    /\ ~panicked
    /\ \E content \in SeqsUpTo(Chars, MaxPaste) :
          /\ Fits(Len(content))
          /\ Commit(paste(Editor, content), [name |-> "paste", arg |-> content])

Backspace ==
    /\ ~panicked
    /\ Commit(backspace(Editor), [name |-> "backspace", arg |-> <<>>])

Delete ==
    /\ ~panicked
    /\ Commit(delete(Editor), [name |-> "delete", arg |-> <<>>])

\* The widget selects a range of the buffer between two edits.
Select ==
    /\ ~panicked
    /\ \E a \in 0..Len(value), h \in 0..Len(value) :
          /\ a # h
          /\ cursor' = select_range(a, h)
          /\ op' = [name |-> "select", arg |-> <<>>]
          /\ pre' = Snapshot
          /\ undo' = [some |-> FALSE]
          /\ UNCHANGED <<value, panicked>>
          /\ UNCHANGED canvasVars

EditorInit ==
    /\ value \in SeqsUpTo(Chars, MaxLen)
    /\ \E a \in 0..Len(value), h \in 0..Len(value) : cursor = select_range(a, h)
    /\ panicked = FALSE
    /\ op = [name |-> "new", arg |-> <<>>]
    /\ pre = [value |-> value, cursor |-> cursor]
    /\ undo = [some |-> FALSE]
    /\ CanvasStart

EditorNext == Insert \/ Paste \/ Backspace \/ Delete \/ Select

EditorSpec == EditorInit /\ [][EditorNext]_vars

\* ------------------------------------------------------------------ claims

\* The selection the last operation started from.
PreSel == cursor_selection(pre.cursor)

\* The buffer the last operation started from.
B == pre.value

\* The editor the last operation started from.
PreEditor == [value |-> pre.value, cursor |-> pre.cursor, panicked |-> FALSE]

EditorOps == {"insert", "paste", "backspace", "delete"}

\* C1: in every state, and so after any sequence of insert, paste, backspace
\* and delete from a valid state, the stored cursor offsets satisfy
\* 0 <= start <= end <= Len(buffer).
C1_CursorInBounds ==
    LET s == Min(cursor.anchor, cursor.head)
        t == Max(cursor.anchor, cursor.head)
    IN  0 <= s /\ s <= t /\ t <= Len(value)

\* An operation has removed a selection that reached the end of the buffer,
\* so the offsets it started from no longer fit the buffer.
C1_Witness ==
    /\ op.name \in EditorOps
    /\ PreSel.some
    /\ PreSel.right > Len(value)
    /\ C1_CursorInBounds

\* C2 (as claimed): insert(ch) over an active selection (s,e) yields
\* B[..s] + ch + B[e..] and a collapsed caret at s+1.
C2_InsertReplacesSelection ==
    (op.name = "insert" /\ PreSel.some) =>
        /\ value = Prefix(B, PreSel.left) \o op.arg \o Suffix(B, PreSel.right)
        /\ cursor = move_to(PreSel.left + 1)

\* C3: insert(ch) at a caret c with no selection yields B[..c] + ch + B[c..]
\* and the caret c+1.
C3_InsertAtCaret ==
    (op.name = "insert" /\ ~PreSel.some) =>
        /\ value = Prefix(B, pre.cursor.head) \o op.arg \o Suffix(B, pre.cursor.head)
        /\ cursor = move_to(pre.cursor.head + 1)
        /\ ~panicked

\* A character was inserted strictly inside a buffer, with no selection.
C3_Witness ==
    /\ op.name = "insert"
    /\ ~PreSel.some
    /\ 0 < pre.cursor.head
    /\ pre.cursor.head < Len(B)
    /\ Len(value) = Len(B) + 1

\* C4: paste(content) at a caret c with no selection yields
\* B[..c] + content + B[c..] and the caret c + Len(content), the empty content
\* included.
C4_PasteAtCaret ==
    (op.name = "paste" /\ ~PreSel.some) =>
        /\ value = Prefix(B, pre.cursor.head) \o op.arg \o Suffix(B, pre.cursor.head)
        /\ cursor = move_to(pre.cursor.head + Len(op.arg))
        /\ ~panicked

\* Two characters were pasted before the end of a buffer, with no selection.
C4_Witness ==
    /\ op.name = "paste"
    /\ ~PreSel.some
    /\ Len(op.arg) = 2
    /\ pre.cursor.head < Len(B)
    /\ Len(value) = Len(B) + 2

\* C5 (as claimed): over an active selection (s,e), delete() and backspace()
\* give the same result, the buffer B[..s] + B[e..] with the caret at s.
C5_DeleteBackspaceSymmetry ==
    (op.name \in {"delete", "backspace"} /\ PreSel.some) =>
        /\ delete(PreEditor) = backspace(PreEditor)
        /\ value = Prefix(B, PreSel.left) \o Suffix(B, PreSel.right)
        /\ cursor = move_to(PreSel.left)

\* C6: insert(ch) from a state with no selection, followed at once by
\* backspace(), restores the buffer and the caret the insert started from.
C6_InsertBackspaceRoundTrip ==
    (op.name = "backspace" /\ undo.some /\ ~cursor_selection(undo.from.cursor).some) =>
        /\ value = undo.from.value
        /\ cursor = undo.from.cursor
        /\ ~panicked

\* A backspace has undone an insert made strictly inside a buffer.
C6_Witness ==
    /\ op.name = "backspace"
    /\ undo.some
    /\ ~cursor_selection(undo.from.cursor).some
    /\ 0 < undo.from.cursor.head
    /\ undo.from.cursor.head < Len(undo.from.value)
    /\ Len(pre.value) = Len(value) + 1

\* C7: backspace() with the caret at 0 and no selection leaves the buffer and
\* the caret as they were.
C7_BackspaceAtZero ==
    (op.name = "backspace" /\ ~PreSel.some /\ pre.cursor.head = 0) =>
        /\ value = B
        /\ cursor = pre.cursor
        /\ ~panicked

\* A backspace ran at offset 0 of a buffer that is not empty.
C7_Witness ==
    /\ op.name = "backspace"
    /\ ~PreSel.some
    /\ pre.cursor.head = 0
    /\ Len(B) > 0

\* The one Group a render of `bounds` hands the renderer for `geometry`.
Group(bounds, geometry) ==
    <<[translation |-> <<bounds.x, bounds.y>>, group |-> <<geometry>>]>>

\* C8: a render in non-degenerate bounds whose size is that of the last
\* render that reached the cache, with no clear of the cache in between, does
\* not run the drawing closure (the regeneration counter stays 0), hands the
\* renderer the geometry that last render returned, and leaves the cache as it
\* was.
C8_RenderReusesCache ==
    (/\ cop.name = "draw"
     /\ cop.bounds.width >= One
     /\ cop.bounds.height >= One
     /\ cop.before.seen.some
     /\ cop.before.seen.size = size_of(cop.bounds)) =>
        /\ draws = 0
        /\ primitives = Group(cop.bounds, cop.before.seen.geometry)
        /\ cache = cop.before.cache

\* A second render at the same size returned the cached geometry although the
\* clock, and with it the arc's angle, had moved on since it was drawn.
C8_Witness ==
    /\ cop.name = "draw"
    /\ cop.bounds.width >= One
    /\ cop.bounds.height >= One
    /\ cop.before.seen.some
    /\ cop.before.seen.size = size_of(cop.bounds)
    /\ cop.before.seen.geometry.angle # elapsed % Period
    /\ draws = 0

\* C9: when the cache was cleared (a tick, or any message delivered to update)
\* since the last render that reached it, a render in non-degenerate bounds
\* runs the drawing closure once, stores the fresh geometry for the current
\* size and clock as the cache's payload, and hands it to the renderer.
C9_RenderAfterClearRegenerates ==
    (/\ cop.name = "draw"
     /\ cop.bounds.width >= One
     /\ cop.bounds.height >= One
     /\ cop.before.invalidated) =>
        LET fresh == arc_geometry(size_of(cop.bounds), elapsed)
        IN  /\ draws = 1
            /\ cache = [state |-> "Filled", bounds |-> size_of(cop.bounds),
                        primitive |-> fresh]
            /\ primitives = Group(cop.bounds, fresh)

\* A render regenerated after a clear that followed an earlier render, with an
\* input event handled and the clock advanced on the way.
C9_Witness ==
    /\ cop.name = "draw"
    /\ cop.bounds.width >= One
    /\ cop.bounds.height >= One
    /\ cop.before.invalidated
    /\ status = "Captured"
    /\ elapsed > 0
    /\ draws = 1

\* C10: a render in degenerate bounds (width < 1 or height < 1) hands the
\* renderer nothing, does not run the drawing closure, and leaves the cache,
\* filled or empty, as it was.
C10_DegenerateRenderSkips ==
    (/\ cop.name = "draw"
     /\ (cop.bounds.width < One \/ cop.bounds.height < One)) =>
        /\ primitives = <<>>
        /\ draws = 0
        /\ cache = cop.before.cache
        /\ invalidated = cop.before.invalidated

\* A render was skipped for a width of one half, over a filled cache.
C10_Witness ==
    /\ cop.name = "draw"
    /\ cop.bounds.width > 0
    /\ cop.bounds.width < One
    /\ cop.bounds.height >= One
    /\ cop.before.cache.state = "Filled"
    /\ primitives = <<>>

\* C11: Canvas::on_event calls the program's update for mouse and keyboard
\* events and for no other: for any other event the program is not called,
\* the shell's messages are as before, and the status returned is Ignored,
\* whatever the program would have answered.
C11_OnlyInputEventsDelegated ==
    (cop.name = "on_event") =>
        /\ (cop.event \in {"Mouse", "Keyboard"}) => updates = 1
        /\ (cop.event \notin {"Mouse", "Keyboard"}) =>
              /\ updates = 0
              /\ messages = cop.before.messages
              /\ status = "Ignored"

\* A window event was ignored although the program would have captured it
\* and emitted a message.
C11_Witness ==
    /\ cop.name = "on_event"
    /\ cop.event = "Window"
    /\ cop.update.status = "Captured"
    /\ cop.update.message.some
    /\ updates = 0
    /\ status = "Ignored"

\* C12: for a mouse or keyboard event, a message the program emits is
\* appended to the shell's messages exactly once and nothing is appended when
\* it emits none; the status returned is the program's in both cases; and no
\* event of any kind publishes more than one message.
C12_MessagePublishedOnce ==
    (cop.name = "on_event") =>
        /\ Len(messages) <= Len(cop.before.messages) + 1
        /\ (cop.event \in {"Mouse", "Keyboard"}) =>
              /\ status = cop.update.status
              /\ messages = IF cop.update.message.some
                            THEN Append(cop.before.messages, cop.update.message.message)
                            ELSE cop.before.messages

\* The program ignored a keyboard event and still emitted a message, which
\* reached the shell once.
C12_Witness ==
    /\ cop.name = "on_event"
    /\ cop.event = "Keyboard"
    /\ cop.update.message.some
    /\ cop.update.status = "Ignored"
    /\ Len(messages) = Len(cop.before.messages) + 1
    /\ status = "Ignored"

\* C13 (as claimed): paste(content) over an active selection (s,e) yields
\* B[..s] + content + B[e..] and a collapsed caret at s + Len(content).
C13_PasteReplacesSelection ==
    (op.name = "paste" /\ PreSel.some) =>
        /\ value = Prefix(B, PreSel.left) \o op.arg \o Suffix(B, PreSel.right)
        /\ cursor = move_to(PreSel.left + Len(op.arg))

\* C14: backspace() at a caret c > 0 with no selection removes the character
\* at offset c-1 (the buffer becomes B[..c-1] + B[c..]) and moves the caret
\* to c-1.
C14_BackspaceAtCaret ==
    (op.name = "backspace" /\ ~PreSel.some /\ pre.cursor.head > 0) =>
        /\ value = Prefix(B, pre.cursor.head - 1) \o Suffix(B, pre.cursor.head)
        /\ cursor = move_to(pre.cursor.head - 1)
        /\ ~panicked

\* A backspace removed a character from strictly inside a buffer.
C14_Witness ==
    /\ op.name = "backspace"
    /\ ~PreSel.some
    /\ pre.cursor.head > 0
    /\ pre.cursor.head < Len(B)
    /\ Len(value) = Len(B) - 1

\* C15 (as claimed): backspace() over an active selection (s,e) removes the
\* e-s selected characters and no other (the buffer becomes B[..s] + B[e..])
\* and leaves the caret at s.
C15_BackspaceRemovesSelection ==
    (op.name = "backspace" /\ PreSel.some) =>
        /\ Len(value) = Len(B) - (PreSel.right - PreSel.left)
        /\ value = Prefix(B, PreSel.left) \o Suffix(B, PreSel.right)
        /\ cursor = move_to(PreSel.left)

\* C16: delete() at a caret c with no selection leaves the caret at c; it
\* removes the character at offset c when c < Len(B) (the buffer becomes
\* B[..c] + B[c+1..]) and leaves the buffer as it is when c = Len(B).
C16_DeleteAtCaret ==
    (op.name = "delete" /\ ~PreSel.some) =>
        /\ cursor = pre.cursor
        /\ value = IF pre.cursor.head < Len(B)
                   THEN Prefix(B, pre.cursor.head) \o Suffix(B, pre.cursor.head + 1)
                   ELSE B
        /\ ~panicked

\* A delete removed a character after a caret that is not at offset 0.
C16_Witness ==
    /\ op.name = "delete"
    /\ ~PreSel.some
    /\ pre.cursor.head > 0
    /\ pre.cursor.head < Len(B)
    /\ Len(value) = Len(B) - 1

\* C17: no Editor operation started from a valid state indexes the buffer
\* out of bounds, and backspace() and delete() on the empty buffer leave the
\* buffer empty and the caret at 0.
C17_NoOutOfBounds ==
    /\ ~panicked
    /\ (op.name \in {"backspace", "delete"} /\ B = <<>>) =>
          (value = <<>> /\ cursor = move_to(0))

\* A delete ran on the empty buffer.
C17_Witness ==
    /\ op.name = "delete"
    /\ B = <<>>
    /\ pre.cursor = move_to(0)
    /\ ~panicked

\* C18: after insert, paste, backspace or delete, started with or without a
\* selection, the cursor is a collapsed caret (selection() is none).
C18_CursorCollapsed ==
    (op.name \in EditorOps) => ~cursor_selection(cursor).some

\* An operation started from an active selection and left a caret.
C18_Witness ==
    /\ op.name \in EditorOps
    /\ PreSel.some
    /\ cursor.anchor = cursor.head

\* The start state of the last operation with the selection's direction
\* reversed.
Reversed ==
    [PreEditor EXCEPT !.cursor = select_range(pre.cursor.head, pre.cursor.anchor)]

\* The last operation applied to the editor `e`.
Redo(e) ==
    CASE op.name = "insert" -> insert(e, op.arg[1])
      [] op.name = "paste" -> paste(e, op.arg)
      [] op.name = "backspace" -> backspace(e)
      [] op.name = "delete" -> delete(e)

\* C19: the buffer and the caret an operation produces from a selection
\* (anchor, head) are those it produces from the same buffer with the
\* selection (head, anchor).
C19_DirectionIndependent ==
    (op.name \in EditorOps) =>
        /\ value = Redo(Reversed).value
        /\ cursor = Redo(Reversed).cursor
        /\ panicked = Redo(Reversed).panicked

\* An operation ran over a selection made backwards (head before anchor).
C19_Witness ==
    /\ op.name \in EditorOps
    /\ pre.cursor.head < pre.cursor.anchor
    /\ value # B

\* C20: a render in non-degenerate bounds whose size differs from the size
\* the cached geometry was drawn at runs the drawing closure and stores the
\* fresh geometry under the new size, although the cache was not cleared
\* since the render before; and the geometry any render hands the renderer
\* was drawn for the size of that render's bounds.
C20_CacheKeyedBySize ==
    (/\ cop.name = "draw"
     /\ cop.bounds.width >= One
     /\ cop.bounds.height >= One) =>
        /\ primitives[1].group[1].size = size_of(cop.bounds)
        /\ (/\ cop.before.seen.some
            /\ ~cop.before.invalidated
            /\ cop.before.seen.size # size_of(cop.bounds)) =>
              LET fresh == arc_geometry(size_of(cop.bounds), elapsed)
              IN  /\ draws = 1
                  /\ cache = [state |-> "Filled", bounds |-> size_of(cop.bounds),
                              primitive |-> fresh]
                  /\ primitives = Group(cop.bounds, fresh)

\* A render at a new size regenerated over a cache that was filled for
\* another size and not cleared since.
C20_Witness ==
    /\ cop.name = "draw"
    /\ cop.bounds.width >= One
    /\ cop.bounds.height >= One
    /\ cop.before.cache.state = "Filled"
    /\ cop.before.seen.some
    /\ ~cop.before.invalidated
    /\ cop.before.cache.bounds # size_of(cop.bounds)
    /\ draws = 1

====
